---- MODULE Spec2Model ----
(***************************************************************************)
(* Model of the Maxwelton weather dashboard (src/app.py).                  *)
(*                                                                         *)
(* Units.  Timestamps are whole hours.  Pressures are integers in          *)
(* milli-hPa (1013.003 hPa = 1013003).  Raw heights are integers in        *)
(* milli-feet.  est_tide_rise computes (1/12) * slope * (p - ref) feet     *)
(* with slope = -0.3937; the model keeps the exact value as an integer     *)
(* numerator over 12 * 10^4 * 10^3, so one milli-foot is 120000 units.     *)
(* A pandas NaN / Python None is the empty set, a present value v is {v}.  *)
(***************************************************************************)
EXTENDS Integers, Sequences, FiniteSets, TLC

VARIABLES
    pressure,        \* est_tide_rise: the argument of the call
    rise,            \* est_tide_rise: <<>> before the call, <<value>> after
    prev,            \* est_tide_rise: the previous call, <<[pressure, rise]>>
    json_predicted,  \* get_tide_df: response of the 'predictions' call
    json_measured,   \* get_tide_df: response of the 'water_level' call
    json_pressure,   \* get_tide_df: response of the 'air_pressure' call
    forecast,        \* get_weather_forecast_df: response of the forecast call
    result,          \* what get_tide_df returned or raised (module-level df)
    current_data,    \* build_weather_comp: response of the current-weather call
    layout,          \* app.layout
    pc,              \* position of the module-level code
    awaiting,        \* the requests.get call in flight
    outcome,         \* per call: how the remote server answered it
    version,         \* the remote servers' data, which changes over time
    loads,           \* number of dashboard loads served so far
    page,            \* the page handed to the last dashboard load
    fetchedInLoad    \* the value of loads when the shown data was fetched

vars == <<pressure, rise, prev, json_predicted, json_measured, json_pressure,
          forecast, result, current_data, layout, pc, awaiting, outcome,
          version, loads, page, fetchedInLoad>>

estVars == <<pressure, rise, prev>>
dfVars == <<json_predicted, json_measured, json_pressure, forecast, result>>
appVars == <<current_data, layout, pc, awaiting, outcome, version, loads,
             page, fetchedInLoad>>

----------------------------------------------------------------------------
(* Bounds of the model *)

MaxT == 2
MaxDelta == 3
MaxVersion == 2
MaxLoads == 2

(* Program constants *)

ref_pressure == 1013003
slope == -3937
UnitsPerMilliFoot == 120000
PRESS_MIN == 970
PRESS_MAX == 1050
UTCOffset == 8

----------------------------------------------------------------------------
(* NaN / None *)

Null == {}
Some(v) == {v}
Val(o) == CHOOSE v \in o : TRUE
pd_isna(x) == x = Null

----------------------------------------------------------------------------
(* est_tide_rise, src/app.py lines 92-112 *)

\* variant: the reference pressure itself counts as low pressure
est_tide_rise_inclusive(p) ==
    IF pd_isna(p) THEN Null
    ELSE IF Val(p) <= ref_pressure
         THEN Some(slope * (Val(p) - ref_pressure))
         ELSE Null

\* variant: the difference is taken the other way round
est_tide_rise_flipped(p) ==
    IF pd_isna(p) THEN Null
    ELSE IF Val(p) < ref_pressure
         THEN Some(slope * (ref_pressure - Val(p)))
         ELSE Null

est_tide_rise(p) ==
    IF pd_isna(p) THEN Null
    ELSE IF Val(p) < ref_pressure
         THEN Some(slope * (Val(p) - ref_pressure))
         ELSE Null

(* The pressures est_tide_rise is tried on: None, whole hPa over the range *)
(* of the pressure chart, and every milli-hPa around the reference.        *)
PressureInputs ==
    {Null}
    \cup {Some(1000 * h) : h \in PRESS_MIN..PRESS_MAX}
    \cup {Some(ref_pressure + d) : d \in (0 - MaxDelta)..MaxDelta}

----------------------------------------------------------------------------
(* Exceptions and data frames.  A data frame is the sequence of its rows,   *)
(* each a record column -> value; pd.DataFrame of an empty list has no      *)
(* columns at all, so subscripting any column of it raises KeyError.        *)

Raise(e) == [raised |-> e, df |-> <<>>, station_name |-> ""]
Pending == Raise("pending")
Unset == [unset |-> TRUE]

HasKey(d, k) == k \in DOMAIN d
Columns(df) == UNION {DOMAIN df[i] : i \in DOMAIN df}

rename(row, old, new) ==
    IF old \in DOMAIN row
    THEN [k \in (DOMAIN row \ {old}) \cup {new} |->
             IF k = new THEN row[old] ELSE row[k]]
    ELSE row

drop(row, cols) == [k \in DOMAIN row \ cols |-> row[k]]

Nulls(cols) == [c \in cols |-> Null]
Pick(row, cols) == [c \in cols |-> row[c]]

IsSorted(df) == \A i \in 1..(Len(df) - 1) : df[i].t <= df[i + 1].t

Max(S) == CHOOSE x \in S : \A y \in S : y <= x
Min(S) == CHOOSE x \in S : \A y \in S : x <= y

----------------------------------------------------------------------------
(* pd.merge(how='left', on 't'), src/app.py lines 195-196: every left row, *)
(* in the left order, once per right row with the same t, or once with     *)
(* NaN in the right columns when there is none.                            *)

\* variant: the last right row at or before the left t instead of an equal t
RECURSIVE pd_merge_ffill(_, _)
pd_merge_ffill(left, right) ==
    IF left = <<>> THEN <<>>
    ELSE LET l == Head(left)
             cols == Columns(right) \ {"t"}
             idx == {j \in 1..Len(right) : right[j].t <= l.t}
             row == IF idx = {} THEN l @@ Nulls(cols)
                    ELSE l @@ Pick(right[Max(idx)], cols)
         IN  <<row>> \o pd_merge_ffill(Tail(left), right)

RECURSIVE pd_merge_left(_, _)
pd_merge_left(left, right) ==
    IF left = <<>> THEN <<>>
    ELSE LET l == Head(left)
             cols == Columns(right) \ {"t"}
             m == SelectSeq(right, LAMBDA r : r.t = l.t)
             rows == IF m = <<>> THEN << l @@ Nulls(cols) >>
                     ELSE [j \in 1..Len(m) |-> l @@ Pick(m[j], cols)]
         IN  rows \o pd_merge_left(Tail(left), right)

(* pd.merge_asof (direction='backward', exact matches allowed), line 197:   *)
(* both keys must be sorted; every left row once, with the last right row   *)
(* whose t is <= the left t, or NaN when there is none.                     *)

\* variant: direction='forward', the first right row at or after the left t
merge_asof_forward(left, right) ==
    IF ~IsSorted(left) \/ ~IsSorted(right) THEN Raise("ValueError")
    ELSE LET cols == Columns(right) \ {"t"}
             row(l) ==
                 LET idx == {j \in 1..Len(right) : right[j].t >= l.t}
                 IN  IF idx = {} THEN l @@ Nulls(cols)
                     ELSE l @@ Pick(right[Min(idx)], cols)
         IN  [raised |-> "none",
              df |-> [i \in 1..Len(left) |-> row(left[i])],
              station_name |-> ""]

merge_asof(left, right) ==
    IF ~IsSorted(left) \/ ~IsSorted(right) THEN Raise("ValueError")
    ELSE LET cols == Columns(right) \ {"t"}
             row(l) ==
                 LET idx == {j \in 1..Len(right) : right[j].t <= l.t}
                 IN  IF idx = {} THEN l @@ Nulls(cols)
                     ELSE l @@ Pick(right[Max(idx)], cols)
         IN  [raised |-> "none",
              df |-> [i \in 1..Len(left) |-> row(left[i])],
              station_name |-> ""]

----------------------------------------------------------------------------
(* get_weather_forecast_df, lines 58-90 (after the call of line 60)         *)

utc_to_pacific(dt) == dt - UTCOffset

forecast_row(e) ==
    [t |-> utc_to_pacific(e.dt_txt),
     temp |-> e.main.temp,
     ForecastedPressure |-> e.main.pressure,
     description |-> e.weather[1].description,
     icon |-> e.weather[1].icon,
     pop |-> e.pop,
     speed |-> e.wind.speed,
     gust |-> e.wind.gust,
     deg |-> e.wind.deg]

get_weather_forecast_df(fc) ==
    IF ~HasKey(fc, "list") THEN Raise("KeyError")
    ELSE IF ~({"main", "weather", "wind", "dt_txt", "pop"} \subseteq Columns(fc.list))
         THEN Raise("KeyError")
    ELSE [raised |-> "none",
          df |-> [i \in 1..Len(fc.list) |-> forecast_row(fc.list[i])],
          station_name |-> ""]

----------------------------------------------------------------------------
(* get_tide_df, lines 142-208, the code that runs on the four responses     *)

nan_add(a, b) == IF a = Null \/ b = Null THEN Null ELSE Some(Val(a) + Val(b))

\* variant: the rise is taken from the measured pressure
EstimatedHeight_measured(row) ==
    nan_add(row.PredictedHeight, est_tide_rise(row.MeasuredPressure))

EstimatedHeight(row) ==
    nan_add(row.PredictedHeight, est_tide_rise(row.ForecastedPressure))

get_tide_df(jp, jm, jpr, fc) ==
    IF ~HasKey(jm, "metadata") THEN Raise("KeyError")
    ELSE IF ~HasKey(jm.metadata, "name") THEN Raise("KeyError")
    ELSE LET fc_press_df == get_weather_forecast_df(fc) IN
    IF fc_press_df.raised # "none" THEN fc_press_df
    ELSE IF ~HasKey(jp, "predictions") THEN Raise("KeyError")
    ELSE IF ~("t" \in Columns(jp.predictions)) THEN Raise("KeyError")
    ELSE IF ~HasKey(jm, "data") THEN Raise("KeyError")
    ELSE IF ~({"t", "s", "f", "q"} \subseteq Columns(jm.data)) THEN Raise("KeyError")
    ELSE IF ~HasKey(jpr, "data") THEN Raise("KeyError")
    ELSE IF ~({"t", "f"} \subseteq Columns(jpr.data)) THEN Raise("KeyError")
    ELSE LET p_df == [i \in 1..Len(jp.predictions) |->
                         rename(jp.predictions[i], "v", "PredictedHeight")]
             a_df == [i \in 1..Len(jm.data) |->
                         drop(rename(jm.data[i], "v", "MeasuredHeight"),
                              {"s", "f", "q"})]
             m_press_df == [i \in 1..Len(jpr.data) |->
                               drop(rename(jpr.data[i], "v", "MeasuredPressure"),
                                    {"f"})]
             r1 == pd_merge_left(p_df, a_df)
             r2 == pd_merge_left(r1, m_press_df)
             r3 == merge_asof(r2, fc_press_df.df)
         IN  IF r3.raised # "none" THEN r3
             ELSE IF ~({"PredictedHeight", "MeasuredHeight", "MeasuredPressure",
                        "ForecastedPressure"} \subseteq Columns(r3.df))
                  THEN Raise("KeyError")
             ELSE [raised |-> "none",
                   df |-> [i \in 1..Len(r3.df) |->
                              r3.df[i] @@ [EstimatedHeight |->
                                              EstimatedHeight(r3.df[i])]],
                   station_name |-> jm.metadata.name]

----------------------------------------------------------------------------
(* The responses of the two remote services.  A series is chronological     *)
(* with distinct timestamps; it may be empty.                               *)

Times == 0..MaxT

RECURSIVE SetToSortedSeq(_)
SetToSortedSeq(S) ==
    IF S = {} THEN <<>>
    ELSE LET m == Min(S) IN <<m>> \o SetToSortedSeq(S \ {m})

SeriesTimes == {SetToSortedSeq(S) : S \in SUBSET Times}

PredictedAt(t) == (10000 + 200 * t) * UnitsPerMilliFoot
MeasuredAt(t) == (10100 + 300 * t) * UnitsPerMilliFoot
MeasuredPressureAt(t) == 1009000 + 500 * t
ForecastLevels == {"low", "high"}
ForecastPressureAt(t, level) ==
    IF level = "low" THEN 1008000 - 1000 * t
    ELSE ref_pressure + 1997 * ((t + 1) % 2)

StationMeta == [id |-> "9444900", name |-> "Port Townsend"]

predictions_json(ts) ==
    [predictions |-> [i \in 1..Len(ts) |->
        [t |-> ts[i], v |-> Some(PredictedAt(ts[i]))]]]

water_level_json(ts) ==
    [metadata |-> StationMeta,
     data |-> [i \in 1..Len(ts) |->
        [t |-> ts[i], v |-> Some(MeasuredAt(ts[i])),
         s |-> "0.059", f |-> "0,0,0,0", q |-> "p"]]]

air_pressure_json(ts) ==
    [metadata |-> StationMeta,
     data |-> [i \in 1..Len(ts) |->
        [t |-> ts[i], v |-> Some(MeasuredPressureAt(ts[i])), f |-> "0,0,0"]]]

forecast_entry(t, level) ==
    [dt_txt |-> t + UTCOffset,
     main |-> [temp |-> 45, pressure |-> Some(ForecastPressureAt(t, level))],
     weather |-> << [description |-> "light rain", icon |-> "10d"] >>,
     wind |-> [speed |-> 5, gust |-> 9, deg |-> 180],
     pop |-> 0]

forecast_json(ts, lv) ==
    [cod |-> "200",
     list |-> [i \in 1..Len(ts) |-> forecast_entry(ts[i], lv[ts[i]])]]

noaa_error_json == [error |-> [message |-> "No data was found"]]
openweather_error_json == [cod |-> "401", message |-> "Invalid API key"]

----------------------------------------------------------------------------
(* The state of the application before anything ran *)

EstIdle == pressure = Null /\ rise = <<>> /\ prev = <<>>

DfIdle ==
    /\ json_predicted = Unset
    /\ json_measured = Unset
    /\ json_pressure = Unset
    /\ forecast = Unset
    /\ result = Pending

NoLayout == [built |-> FALSE]
NoPage == [load |-> 0]
Calls == {"predictions", "water_level", "air_pressure", "forecast", "current"}

AppIdle ==
    /\ current_data = Unset
    /\ layout = NoLayout
    /\ pc = "off"
    /\ awaiting = "none"
    /\ outcome = [c \in Calls |-> "none"]
    /\ version = 0
    /\ loads = 0
    /\ page = NoPage
    /\ fetchedInLoad = 0

----------------------------------------------------------------------------
(* SpecRise: est_tide_rise called on one pressure after another *)

InitRise ==
    /\ pressure \in PressureInputs
    /\ rise = <<>>
    /\ prev = <<>>
    /\ DfIdle
    /\ AppIdle

CallEstTideRise ==
    /\ rise = <<>>
    /\ rise' = << est_tide_rise(pressure) >>
    /\ UNCHANGED <<pressure, prev, dfVars, appVars>>

NextPressure ==
    /\ rise # <<>>
    /\ prev = <<>>
    /\ prev' = << [pressure |-> pressure, rise |-> rise[1]] >>
    /\ pressure' \in PressureInputs
    /\ rise' = <<>>
    /\ UNCHANGED <<dfVars, appVars>>

NextRise == CallEstTideRise \/ NextPressure

SpecRise == InitRise /\ [][NextRise]_vars

----------------------------------------------------------------------------
(* SpecMerge: get_tide_df run on every combination of the four series *)

InitMerge ==
    /\ json_predicted \in {predictions_json(ts) : ts \in SeriesTimes}
    /\ json_measured \in {water_level_json(ts) : ts \in SeriesTimes}
    /\ json_pressure \in {air_pressure_json(ts) : ts \in SeriesTimes}
    /\ forecast \in {forecast_json(ts, lv) :
                        ts \in SeriesTimes, lv \in [Times -> ForecastLevels]}
    /\ result = Pending
    /\ EstIdle
    /\ AppIdle

RunGetTideDf ==
    /\ result = Pending
    /\ result' = get_tide_df(json_predicted, json_measured, json_pressure, forecast)
    /\ UNCHANGED <<json_predicted, json_measured, json_pressure, forecast,
                   estVars, appVars>>

NextMerge == RunGetTideDf

SpecMerge == InitMerge /\ [][NextMerge]_vars

----------------------------------------------------------------------------
(* What the remote services hold at a given moment (version) *)

PastTimes(v) == {t \in Times : t <= v}
LevelsAt(v) == [t \in Times |-> IF (t + v) % 2 = 0 THEN "low" ELSE "high"]

current_json(v) ==
    [name |-> "Clinton",
     main |-> [temp |-> 45, pressure |-> 1008 + v],
     weather |-> << [main |-> "Rain"] >>,
     wind |-> [speed |-> 5, deg |-> 180]]

RemoteData(c, v) ==
    CASE c = "predictions" -> predictions_json(SetToSortedSeq(Times))
      [] c = "water_level" -> water_level_json(SetToSortedSeq(PastTimes(v)))
      [] c = "air_pressure" -> air_pressure_json(SetToSortedSeq(PastTimes(v)))
      [] c = "forecast" -> forecast_json(SetToSortedSeq(Times), LevelsAt(v))
      [] c = "current" -> current_json(v)

ErrorData(c) ==
    IF c \in {"forecast", "current"} THEN openweather_error_json
    ELSE noaa_error_json

(* r.json() of a call the server answered *)
Response(c) == IF outcome[c] = "ok" THEN RemoteData(c, version) ELSE ErrorData(c)

----------------------------------------------------------------------------
(* The page components, lines 114-119 and 320-411 *)

compass == <<"N", "NNE", "NE", "ENE", "E", "ESE", "SE", "SSE",
             "S", "SSW", "SW", "WSW", "W", "WNW", "NW", "NNW">>

\* int((deg / 22.5) + 0.5) = floor((4 * deg + 45) / 90) for deg >= 0
deg_to_compass(deg) == compass[(((4 * deg + 45) \div 90) % 16) + 1]

\* variant: missing keys are replaced by an empty component
build_weather_comp_defaults(cd) ==
    IF HasKey(cd, "main") /\ HasKey(cd, "weather") /\ HasKey(cd, "name")
       /\ HasKey(cd, "wind")
    THEN [raised |-> "none",
          wc |-> [temp |-> cd.main.temp,
                  weather |-> cd.weather[1].main,
                  weather_location |-> cd.name,
                  pressure |-> cd.main.pressure,
                  wind_speed |-> cd.wind.speed,
                  wind_dir |-> deg_to_compass(cd.wind.deg)]]
    ELSE [raised |-> "none", wc |-> [empty |-> TRUE]]

build_weather_comp(cd) ==
    IF HasKey(cd, "main") /\ HasKey(cd, "weather") /\ HasKey(cd, "name")
       /\ HasKey(cd, "wind")
    THEN [raised |-> "none",
          wc |-> [temp |-> cd.main.temp,
                  weather |-> cd.weather[1].main,
                  weather_location |-> cd.name,
                  pressure |-> cd.main.pressure,
                  wind_speed |-> cd.wind.speed,
                  wind_dir |-> deg_to_compass(cd.wind.deg)]]
    ELSE [raised |-> "KeyError", wc |-> [empty |-> TRUE]]

build_tide_comp(df, name) ==
    [title |-> <<"Tide at ", name>>,
     lines |-> [i \in 1..Len(df) |->
                   Pick(df[i], {"t", "PredictedHeight", "MeasuredHeight",
                                "EstimatedHeight"})]]

build_pressure_comp(df) ==
    [title |-> "Barometric Pressure",
     lines |-> [i \in 1..Len(df) |->
                   Pick(df[i], {"t", "MeasuredPressure", "ForecastedPressure"})]]

----------------------------------------------------------------------------
(* Spec: the module-level code of app.py from line 354 on, then the server. *)
(* pc names the call the code is at; a requests.get is split into the       *)
(* request and the return of the response.                                  *)

Outcomes == {"ok", "error", "refused", "silent"}

Init ==
    /\ EstIdle
    /\ DfIdle
    /\ current_data = Unset
    /\ layout = NoLayout
    /\ pc = "predictions"
    /\ awaiting = "none"
    /\ outcome = [c \in Calls |-> "none"]
    /\ version = 0
    /\ loads = 0
    /\ page = NoPage
    /\ fetchedInLoad = 0

(* requests.get(api_url) of lines 45, 55 and 138: no timeout is passed.  The *)
(* server answers with the data ("ok"), answers with an error body          *)
(* ("error"), refuses the connection ("refused") or never answers.          *)
requests_get(c) ==
    /\ pc = c
    /\ awaiting = "none"
    /\ awaiting' = c
    /\ \E o \in Outcomes : outcome' = [outcome EXCEPT ![c] = o]
    /\ UNCHANGED <<estVars, dfVars, current_data, layout, pc, version, loads,
                   page, fetchedInLoad>>

(* requests.get raises ConnectionError; nothing catches it *)
ConnectionError(c) ==
    /\ awaiting = c
    /\ outcome[c] = "refused"
    /\ awaiting' = "none"
    /\ pc' = "crashed"
    /\ UNCHANGED <<estVars, dfVars, current_data, layout, outcome, version,
                   loads, page, fetchedInLoad>>

Answered(c) == awaiting = c /\ outcome[c] \in {"ok", "error"}

(* lines 147-153 *)
predictions_return ==
    /\ Answered("predictions")
    /\ json_predicted' = Response("predictions")
    /\ awaiting' = "none"
    /\ pc' = "water_level"
    /\ fetchedInLoad' = loads
    /\ UNCHANGED <<estVars, json_measured, json_pressure, forecast, result,
                   current_data, layout, outcome, version, loads, page>>

(* lines 156-163 *)
water_level_return ==
    /\ Answered("water_level")
    /\ json_measured' = Response("water_level")
    /\ awaiting' = "none"
    /\ pc' = IF /\ HasKey(json_measured', "metadata")
                /\ HasKey(json_measured'.metadata, "name")
             THEN "air_pressure"
             ELSE "crashed"
    /\ fetchedInLoad' = loads
    /\ UNCHANGED <<estVars, json_predicted, json_pressure, forecast, result,
                   current_data, layout, outcome, version, loads, page>>

(* lines 166-172 *)
air_pressure_return ==
    /\ Answered("air_pressure")
    /\ json_pressure' = Response("air_pressure")
    /\ awaiting' = "none"
    /\ pc' = "forecast"
    /\ fetchedInLoad' = loads
    /\ UNCHANGED <<estVars, json_predicted, json_measured, forecast, result,
                   current_data, layout, outcome, version, loads, page>>

(* lines 60-90 and 176-208, and the assignment of line 354 *)
forecast_return ==
    /\ Answered("forecast")
    /\ forecast' = Response("forecast")
    /\ awaiting' = "none"
    /\ result' = get_tide_df(json_predicted, json_measured, json_pressure,
                             forecast')
    /\ pc' = IF result'.raised = "none" THEN "current" ELSE "crashed"
    /\ fetchedInLoad' = loads
    /\ UNCHANGED <<estVars, json_predicted, json_measured, json_pressure,
                   current_data, layout, outcome, version, loads, page>>

(* lines 324-352 and the layout of lines 415-422 *)
current_return ==
    /\ Answered("current")
    /\ current_data' = Response("current")
    /\ awaiting' = "none"
    /\ LET wc == build_weather_comp(current_data')
       IN  IF wc.raised = "none"
           THEN /\ layout' = [built |-> TRUE,
                              weather |-> wc.wc,
                              tideFig |-> build_tide_comp(result.df,
                                                          result.station_name),
                              pressFig |-> build_pressure_comp(result.df)]
                /\ pc' = "serving"
           ELSE /\ layout' = layout
                /\ pc' = "crashed"
    /\ fetchedInLoad' = loads
    /\ UNCHANGED <<estVars, dfVars, outcome, version, loads, page>>

(* A dashboard load or refresh: Dash serves app.layout, a component tree    *)
(* built once at line 415, not a function called per load.                  *)
PageLoad ==
    /\ pc = "serving"
    /\ loads < MaxLoads
    /\ loads' = loads + 1
    /\ page' = [load |-> loads + 1, layout |-> layout,
                fetchedInLoad |-> fetchedInLoad]
    /\ UNCHANGED <<estVars, dfVars, current_data, layout, pc, awaiting,
                   outcome, version, fetchedInLoad>>

(* Time passes: the stations measure, the forecast is revised *)
RemoteUpdate ==
    /\ version < MaxVersion
    /\ version' = version + 1
    /\ UNCHANGED <<estVars, dfVars, current_data, layout, pc, awaiting,
                   outcome, loads, page, fetchedInLoad>>

ProgramNext ==
    \/ \E c \in Calls : requests_get(c)
    \/ \E c \in Calls : ConnectionError(c)
    \/ predictions_return
    \/ water_level_return
    \/ air_pressure_return
    \/ forecast_return
    \/ current_return
    \/ PageLoad

Next == ProgramNext \/ RemoteUpdate

Spec == Init /\ [][Next]_vars

----------------------------------------------------------------------------
(* Claims about est_tide_rise (SpecRise) *)

Returned == rise # <<>>

\* C7: est_tide_rise returns null for a null pressure and for every pressure
\* greater than or equal to 1013.003, exactly 1013.003 included; it returns
\* a non-null value only for pressures strictly below the reference.
C7_NullAtOrAboveReference ==
    Returned =>
        /\ (pressure = Null => rise[1] = Null)
        /\ (pressure # Null /\ Val(pressure) >= 1013003 => rise[1] = Null)
        /\ (rise[1] # Null => pressure # Null /\ Val(pressure) < 1013003)

C7_Witness ==
    /\ Returned
    /\ pressure = Some(1013003)
    /\ rise[1] = Null
    /\ prev # <<>>
    /\ prev[1].pressure = Null
    /\ prev[1].rise = Null

\* C8: for every pressure strictly below 1013.003, est_tide_rise returns a
\* strictly positive number equal to (1/12) * (-0.3937) * (pressure - 1013.003)
\* (here in units of 1/(12 * 10^7) foot), and a lower pressure never yields a
\* smaller rise.
C8_PositiveLinearRise ==
    (Returned /\ pressure # Null /\ Val(pressure) < 1013003) =>
        /\ rise[1] # Null
        /\ Val(rise[1]) > 0
        /\ Val(rise[1]) = 3937 * (1013003 - Val(pressure))
        /\ \A c \in {prev[i] : i \in DOMAIN prev} :
              (c.pressure # Null /\ Val(c.pressure) < 1013003
                  /\ Val(pressure) <= Val(c.pressure))
              => (c.rise # Null /\ Val(rise[1]) >= Val(c.rise))

C8_Witness ==
    /\ Returned
    /\ prev # <<>>
    /\ prev[1].pressure = Some(1008000)
    /\ prev[1].rise = Some(3937 * 5003)
    /\ pressure = Some(1000000)
    /\ rise[1] = Some(3937 * 13003)
    /\ Val(rise[1]) > Val(prev[1].rise)

----------------------------------------------------------------------------
(* Claims about the merge of get_tide_df (SpecMerge) *)

Ran == result # Pending
Merged == result.raised = "none"
Rows == {result.df[i] : i \in DOMAIN result.df}
PredictedSeries == json_predicted.predictions
MeasuredSamples == {json_measured.data[i] : i \in DOMAIN json_measured.data}
PressureSamples == {json_pressure.data[i] : i \in DOMAIN json_pressure.data}
\* the forecast samples with their timestamps as the merge sees them
ForecastSamples ==
    {[t |-> forecast.list[i].dt_txt - 8, p |-> forecast.list[i].main.pressure] :
        i \in DOMAIN forecast.list}

\* C1: for every combination of the four series, the three non-anchor ones of
\* any length, empty included, the merge produces a table with exactly one
\* row per predicted timestamp.  (The predicted series is taken non-empty, so
\* that a violation is about a non-anchor series.)
C1_RowPerPredictedTimestamp ==
    (Ran /\ PredictedSeries # <<>>) =>
        /\ Merged
        /\ Len(result.df) = Len(PredictedSeries)
        /\ \A i \in DOMAIN result.df : result.df[i].t = PredictedSeries[i].t

\* C2: a non-null forecasted pressure of an output row is that of the
\* forecast sample with the greatest timestamp <= the row's timestamp: never
\* of a later sample, never of an older one when a more recent one exists.
C2_NearestPriorForecast ==
    (Ran /\ Merged) =>
        \A r \in Rows :
            r.ForecastedPressure # Null =>
                \E s \in ForecastSamples :
                    /\ s.t <= r.t
                    /\ r.ForecastedPressure = s.p
                    /\ ~\E s2 \in ForecastSamples : s.t < s2.t /\ s2.t <= r.t

C2_Witness ==
    /\ Ran /\ Merged
    /\ ForecastSamples = {[t |-> 0, p |-> Some(1008000)],
                          [t |-> 2, p |-> Some(1006000)]}
    /\ \E r \in Rows : r.t = 1 /\ r.ForecastedPressure = Some(1008000)
    /\ \E r \in Rows : r.t = 2 /\ r.ForecastedPressure = Some(1006000)

\* C3: the estimated height of every output row is its predicted height plus
\* est_tide_rise of its own joined forecasted pressure, and is null whenever
\* that pressure is null or >= 1013.003.
C3_EstimatedHeight ==
    (Ran /\ Merged) =>
        \A r \in Rows :
            r.EstimatedHeight =
                IF r.ForecastedPressure = Null THEN Null
                ELSE IF Val(r.ForecastedPressure) >= 1013003 THEN Null
                ELSE Some(Val(r.PredictedHeight)
                          + 3937 * (1013003 - Val(r.ForecastedPressure)))

C3_Witness ==
    /\ Ran /\ Merged
    /\ \E r \in Rows : /\ r.ForecastedPressure = Null
                       /\ r.EstimatedHeight = Null
    /\ \E r \in Rows : /\ r.ForecastedPressure = Some(1013003)
                       /\ r.EstimatedHeight = Null
    /\ \E r \in Rows : /\ r.ForecastedPressure = Some(1006000)
                       /\ r.MeasuredPressure = Some(1010000)
                       /\ r.PredictedHeight = Some(10400 * 120000)
                       /\ r.EstimatedHeight = Some(10400 * 120000 + 3937 * 7003)

\* C9: every predicted row earlier than the first forecast sample, the empty
\* forecast series included, is present in the output with a null forecasted
\* pressure.  (The two measured series are taken non-empty, so that a
\* violation is about the forecast series.)
C9_NullBeforeFirstForecast ==
    (Ran /\ MeasuredSamples # {} /\ PressureSamples # {}) =>
        \A i \in DOMAIN PredictedSeries :
            (\A s \in ForecastSamples : PredictedSeries[i].t < s.t) =>
                /\ Merged
                /\ \E r \in Rows : r.t = PredictedSeries[i].t
                /\ \A r \in Rows : r.t = PredictedSeries[i].t
                                      => r.ForecastedPressure = Null

\* C10: the measured height (measured pressure) of every output row is the
\* value of the sample with exactly the row's timestamp, null when there is
\* none; a measurement at another timestamp is never used and adds no row.
C10_ExactMatchMeasurements ==
    (Ran /\ Merged) =>
        /\ \A r \in Rows :
              /\ \A s \in MeasuredSamples : s.t = r.t => r.MeasuredHeight = s.v
              /\ (~\E s \in MeasuredSamples : s.t = r.t) => r.MeasuredHeight = Null
              /\ \A s \in PressureSamples : s.t = r.t => r.MeasuredPressure = s.v
              /\ (~\E s \in PressureSamples : s.t = r.t) => r.MeasuredPressure = Null
        /\ {r.t : r \in Rows} = {PredictedSeries[i].t : i \in DOMAIN PredictedSeries}
        /\ Len(result.df) = Len(PredictedSeries)

C10_Witness ==
    /\ Ran /\ Merged
    /\ {s.t : s \in MeasuredSamples} = {0, 2}
    /\ {s.t : s \in PressureSamples} = {0, 1}
    /\ {r.t : r \in Rows} = {1, 2}
    /\ \E r \in Rows : /\ r.t = 1
                       /\ r.MeasuredHeight = Null
                       /\ r.MeasuredPressure = Some(1009500)
    /\ \E r \in Rows : /\ r.t = 2
                       /\ r.MeasuredHeight = Some(10700 * 120000)
                       /\ r.MeasuredPressure = Null

----------------------------------------------------------------------------
(* Claims about a render and the dashboard loads (Spec) *)

DataCalls == Calls \ {"current"}
\* the fetch of c has failed: the server answered with an error body, or
\* refused the connection, and the code has received that
Failed(c) == outcome[c] \in {"error", "refused"} /\ awaiting # c

\* C4: if any one of the five fetches of a render fails, the whole render
\* fails: no tide or pressure chart is ever built from the data of the
\* fetches that did succeed, and the failed fetch is not replaced by
\* null or empty data.
C4_FailedFetchFailsRender ==
    /\ (\E c \in Calls : Failed(c)) =>
          /\ ~layout.built
          /\ pc # "serving"
          /\ page = NoPage
    /\ (\E c \in DataCalls : Failed(c)) => result.raised # "none"
    /\ layout.built =>
          /\ \A c \in Calls : outcome[c] = "ok"
          /\ result.raised = "none"
          /\ layout.tideFig.lines # <<>>
          /\ Len(layout.tideFig.lines) = Len(json_predicted.predictions)
          /\ Len(layout.pressFig.lines) = Len(json_predicted.predictions)

C4_Witness ==
    /\ pc = "crashed"
    /\ \A c \in DataCalls : outcome[c] = "ok"
    /\ outcome["current"] = "error"
    /\ awaiting = "none"
    /\ result.raised = "none"
    /\ result.df # <<>>
    /\ current_data = openweather_error_json
    /\ ~layout.built

\* C5: every external call is bounded by a timeout, so a render in which a
\* remote server never responds still ends: whenever the render is neither
\* finished nor failed, the code has a next step.
C5_RenderNeverBlocks ==
    pc \in {"serving", "crashed"} \/ ENABLED ProgramNext

\* C6: every dashboard load recomputes the unified table from a fresh set of
\* fetches: the data shown by the n-th load was fetched during that load,
\* never for an earlier load or at process start.
C6_FreshFetchesEveryLoad ==
    page # NoPage => page.fetchedInLoad = page.load

====
